---- MODULE Spec2Model ----
(***************************************************************************)
(* Broadcaster / Joint core of injoint.                                    *)
(*                                                                         *)
(* Every connection is one task running AbstractJoint::handle_stream.      *)
(* A step of a task runs from one await to the next: acquiring a tokio     *)
(* Mutex is an await, and so are stream.next, reducer.dispatch and         *)
(* sink.send.  The three registries (clients, rooms, connections) and the  *)
(* reducer of every room are guarded by their own Mutex; a guard is        *)
(* released where the Rust code drops it.                                  *)
(***************************************************************************)
EXTENDS Integers, Sequences, FiniteSets, TLC

\* ---------------------------------------------------------------- bounds
\* Inputs of a run: messages read from all streams plus host calls of
\* AbstractJoint::dispatch.
MaxOps == 3
\* Messages read from all streams in the runs of the two-member scenario
\* (SpecMembers below).
MaxMemberMsgs == 4
\* Messages read from both streams in the runs with failing sinks
\* (SpecSendFail below).
MaxFlakyMsgs == 3
\* Messages read from both streams in the runs under fair scheduling
\* (SpecFair below).
MaxFairMsgs == 3
\* Messages read from both streams in the runs whose messages carry a
\* client_token (SpecToken below).
MaxTokenMsgs == 3

\* Connection tasks (one per accepted transport connection).
Conns == {1, 2}
\* Host tasks calling AbstractJoint::dispatch.
Exts == {3}
Tasks == Conns \cup Exts
NoTask == 0

\* Values rand::rng().random::<u64>() is drawn from in the model.
ClientIds == {0, 1}
\* Option::None of Client::room_id.
NoRoom == -1
\* Room ids a Join message may name.
JoinTargets == {0, 1}

\* Raw action payloads (JSON text) a message or a host call may carry.
RawActions == {"IdentifyUser:n", "SendMessage:x", "not-json"}

VARIABLES
    clients,      \* Broadcaster::clients      id -> room_id (NoRoom = None)
    connections,  \* Broadcaster::connections  id -> sink (the task owning it)
    rooms,        \* Broadcaster::rooms        id -> [owner_id, client_ids]
    reducers,     \* content of Room::reducer  id -> reducer state
    locks,        \* holder of the clients / rooms / connections Mutex
    reducerLock,  \* holder of the Mutex of Room::reducer, per room
    task,         \* per task: position and locals
    sink,         \* per connection task: responses passed to its sink's send
    applied,      \* history: per room, the successful dispatches in lock order
    bcast,        \* history: per room, the Action broadcasts that took place
    ops           \* inputs so far: messages read and host calls made

vars == <<clients, connections, rooms, reducers, locks, reducerLock, task,
          sink, applied, bcast, ops>>

\* ------------------------------------------------------------ map helpers
MapInsert(m, k, v) == [x \in DOMAIN m \cup {k} |-> IF x = k THEN v ELSE m[x]]
MapRemove(m, k) == [x \in DOMAIN m \ {k} |-> m[x]]

\* ---------------------------------------------------------------- reducer
\* Reducer::new of the chat example: no users, no messages.
DefaultReducer == [users |-> <<>>, messages |-> <<>>]

\* serde_json::from_str::<R::Action>: the tagged action, or a parse error.
ParseAction(raw) ==
    CASE raw = "IdentifyUser:n" ->
            [ok |-> TRUE, type |-> "IdentifyUser", data |-> "n"]
      [] raw = "SendMessage:x" ->
            [ok |-> TRUE, type |-> "SendMessage", data |-> "x"]
      [] OTHER -> [ok |-> FALSE, type |-> "", data |-> ""]

\* Reducer::dispatch: the new state and the handler's Ok / Err string.
Dispatch(state, client_id, action) ==
    IF action.type = "IdentifyUser"
    THEN IF client_id \in DOMAIN state.users
         THEN [ok |-> FALSE, state |-> state, data |-> "User already identified"]
         ELSE [ok |-> TRUE,
               state |-> [state EXCEPT !.users = MapInsert(@, client_id, action.data)],
               data |-> action.data]
    ELSE IF client_id \notin DOMAIN state.users
         THEN [ok |-> FALSE, state |-> state, data |-> "User not identified"]
         ELSE [ok |-> TRUE,
               state |-> [state EXCEPT !.messages =
                             Append(@, [author |-> client_id, content |-> action.data])],
               data |-> action.data]

\* ActionResponse built by the generated Dispatchable::dispatch.
ActionResponse(action, d, client_id) ==
    [status |-> action.type, state |-> d.state, author |-> client_id, data |-> d.data]

\* -------------------------------------------------------------- responses
RoomResponse(room, response) == [ok |-> TRUE, target |-> room, response |-> response]
ClientResponse(client, response) == [ok |-> FALSE, target |-> client, response |-> response]

create_room(room) == RoomResponse(room, [status |-> "RoomCreated", message |-> room])
join_room(room, client) == RoomResponse(room, [status |-> "RoomJoined", message |-> client])
leave_room(room, client) == RoomResponse(room, [status |-> "RoomLeft", message |-> client])
\* room and ver are history fields: the room whose reducer ran the dispatch
\* (the reducer handle_action was given) and the position of the dispatch in
\* that room's lock order.  The response is addressed to room_id, the room
\* handle_action read from the client's record.
action(room_id, payload, room, ver) ==
    RoomResponse(room_id, [status |-> "Action", message |-> payload, room |-> room, ver |-> ver])
not_found(client, text) == ClientResponse(client, [status |-> "NotFound", message |-> text])
client_error(client, text) == ClientResponse(client, [status |-> "ClientError", message |-> text])
server_error(client, text) == ClientResponse(client, [status |-> "ServerError", message |-> text])
\* As StateSent, but the state of the template reducer is sent.
StateSent_default(state) == [status |-> "StateSent", message |-> DefaultReducer]
StateSent(state) == [status |-> "StateSent", message |-> state]

NoResult == [ok |-> FALSE, target |-> 0, response |-> [status |-> "None"]]
NoEvent == [type |-> "None"]

\* ------------------------------------------------------------------- Init
\* vacant is a history field: the room the handled Join entered had no member.
InitTask ==
    [pc |-> "start", cid |-> 0, ev |-> NoEvent, act |-> ParseAction(""),
     res |-> NoResult, arc |-> NoRoom, room |-> NoRoom, snap |-> DefaultReducer,
     conn |-> NoTask, sendq |-> {}, vacant |-> FALSE]

Init ==
    /\ clients = <<>>
    /\ connections = <<>>
    /\ rooms = <<>>
    /\ reducers = <<>>
    /\ locks = [clients |-> NoTask, rooms |-> NoTask, connections |-> NoTask]
    /\ reducerLock = <<>>
    /\ task = [t \in Tasks |-> IF t \in Conns THEN InitTask
                               ELSE [InitTask EXCEPT !.pc = "idle"]]
    /\ sink = [t \in Conns |-> <<>>]
    /\ applied = <<>>
    /\ bcast = <<>>
    /\ ops = 0


\* ------------------------------------------------------- registry updates
\* Client::room_id = value  (handle_create, handle_join, handle_leave,
\* insert_client_to_room).
ClientSetRoom(cl, client_id, value) == [cl EXCEPT ![client_id] = value]

\* As NewRoomId, but only the rooms that still have members are counted.
NewRoomId_live(rms) == Cardinality({r \in DOMAIN rms : rms[r].client_ids # {}})

\* rooms.len() as u64
NewRoomId(rms) == Cardinality(DOMAIN rms)

\* The Room built by handle_create, inserted under room_id.
RoomCreate(rms, room_id, client_id) ==
    MapInsert(rms, room_id, [owner_id |-> client_id, client_ids |-> {client_id}])

\* room.client_ids.insert(client_id)
RoomInsertClient(rms, room_id, client_id) ==
    [rms EXCEPT ![room_id].client_ids = @ \cup {client_id}]

\* room.client_ids.remove(&client_id)
RoomRemoveClient(rms, room_id, client_id) ==
    [rms EXCEPT ![room_id].client_ids = @ \ {client_id}]

\* As ConnectionsRemove, but the sink stays registered.
ConnectionsRemove_skip(conns, client_id) == conns

\* connections.remove(&client_id)
ConnectionsRemove(conns, client_id) == MapRemove(conns, client_id)

\* As LockReducer, but the reducer is entered without taking its Mutex.
LockReducer_skip(rl, room_id, t) == rl

\* room.reducer.lock().await
LockReducer(rl, room_id, t) == [rl EXCEPT ![room_id] = t]
UnlockReducer(rl, room_id) == [rl EXCEPT ![room_id] = NoTask]

\* As ReducerWrite, but the dispatch ran on a copy and its result is lost.
ReducerWrite_lost(rd, room_id, state) == rd

\* The state a dispatch leaves in the room's reducer.
ReducerWrite(rd, room_id, state) == [rd EXCEPT ![room_id] = state]

\* The sinks react_on_message clones: members of the room that have a client
\* record and a connection.
Recipients(room_id) ==
    {connections[c] : c \in {m \in rooms[room_id].client_ids :
                                m \in DOMAIN clients /\ m \in DOMAIN connections}}

\* SinkAdapter::send on the sink of connection task s.
Send(s, response) == sink' = [sink EXCEPT ![s] = Append(@, response)]

\* --------------------------------------------------------- task positions
pc(t) == task[t].pc
Free(l) == locks[l] = NoTask
Goto(t, label) == task' = [task EXCEPT ![t].pc = label]
\* Back in the loop of handle_rx: the locals of the handled event are gone.
Return(t) == task' = [task EXCEPT ![t] = [InitTask EXCEPT !.pc = "rx_next",
                                                          !.cid = task[t].cid]]
\* A host call returns its result.
ReturnExtern(t, result) ==
    task' = [task EXCEPT ![t] = [InitTask EXCEPT !.pc = "idle", !.res = result]]

\* A task between two operations: waiting in stream.next, not yet started,
\* finished, or a host task outside a dispatch call.
AtRest(t) == pc(t) \in {"start", "rx_next", "done", "idle", "cancelled"}
Quiescent == \A t \in Tasks : AtRest(t)

shared == <<clients, connections, rooms, reducers>>
history == <<applied, bcast>>
counters == <<ops>>

\* ------------------------------------------ handle_stream: registration
\* new_client_id is drawn; add_client_connection locks clients and inserts
\* the Client record.
AddClientConnection_clients(t, id) ==
    /\ pc(t) = "start"
    /\ Free("clients")
    /\ clients' = MapInsert(clients, id, NoRoom)
    /\ locks' = [locks EXCEPT !.clients = t]
    /\ task' = [task EXCEPT ![t].pc = "add_connections", ![t].cid = id]
    /\ UNCHANGED <<connections, rooms, reducers, reducerLock, sink, history, counters>>

\* add_client_connection locks connections, inserts the sink, drops guards.
AddClientConnection_connections(t) ==
    /\ pc(t) = "add_connections"
    /\ Free("connections")
    /\ connections' = MapInsert(connections, task[t].cid, t)
    /\ locks' = [locks EXCEPT !.clients = NoTask]
    /\ Return(t)
    /\ UNCHANGED <<clients, rooms, reducers, reducerLock, sink, history, counters>>

\* ------------------------------------------------------ handle_rx: next
\* rx.next() yields Ok(event); limit bounds the inputs of the run.
StreamNext(t, event, limit) ==
    /\ pc(t) = "rx_next"
    /\ ops < limit
    /\ ops' = ops + 1
    /\ task' = [task EXCEPT ![t].pc = "process_event", ![t].ev = event]
    /\ UNCHANGED <<shared, locks, reducerLock, sink, history>>

RxNext(t, event) == StreamNext(t, event, MaxOps)

\* rx.next() yields Err: end of stream or transport error; the loop ends.
RxEnd(t) ==
    /\ pc(t) = "rx_next"
    /\ Goto(t, "remove_clients")
    /\ UNCHANGED <<shared, locks, reducerLock, sink, history, counters>>

\* ----------------------------------------------------------- process_event
\* The existence check under the clients lock, then the match on the event;
\* an Action payload is parsed here.
ProcessEvent(t) ==
    /\ pc(t) = "process_event"
    /\ Free("clients")
    /\ LET c == task[t].cid
           e == task[t].ev
       IN IF c \notin DOMAIN clients
          THEN task' = [task EXCEPT ![t].pc = "error_connections",
                                    ![t].res = not_found(c, "Client not found")]
          ELSE CASE e.type = "Create" -> Goto(t, "create_clients")
                 [] e.type = "Join" -> Goto(t, "join_clients")
                 [] e.type = "Leave" -> Goto(t, "leave_clients")
                 [] e.type = "Action" ->
                      IF ParseAction(e.data).ok
                      THEN task' = [task EXCEPT ![t].pc = "action_clients",
                                                ![t].act = ParseAction(e.data)]
                      ELSE task' = [task EXCEPT ![t].pc = "error_connections",
                                                ![t].res = server_error(c, "Invalid action")]
    /\ UNCHANGED <<shared, locks, reducerLock, sink, history, counters>>

\* ----------------------------------------------------------- handle_create
HandleCreate_clients(t) ==
    /\ pc(t) = "create_clients"
    /\ Free("clients")
    /\ LET c == task[t].cid
       IN IF c \notin DOMAIN clients
          THEN /\ task' = [task EXCEPT ![t].pc = "error_connections",
                                       ![t].res = not_found(c, "Client not found")]
               /\ UNCHANGED locks
          ELSE IF clients[c] # NoRoom
          THEN /\ task' = [task EXCEPT ![t].pc = "error_connections",
                              ![t].res = client_error(c, "Leave current room before creating new")]
               /\ UNCHANGED locks
          ELSE /\ Goto(t, "create_rooms")
               /\ locks' = [locks EXCEPT !.clients = t]
    /\ UNCHANGED <<shared, reducerLock, sink, history, counters>>

\* As HandleCreate_rooms, but the new room starts from the state of the
\* reducer of room 0 when there is one.
HandleCreate_rooms_shared(t) ==
    /\ pc(t) = "create_rooms"
    /\ Free("rooms")
    /\ LET c == task[t].cid
           room_id == NewRoomId(rooms)
       IN /\ clients' = ClientSetRoom(clients, c, room_id)
          /\ rooms' = RoomCreate(rooms, room_id, c)
          /\ reducers' = MapInsert(reducers, room_id,
                                   IF 0 \in DOMAIN reducers THEN reducers[0]
                                                            ELSE DefaultReducer)
          /\ reducerLock' = MapInsert(reducerLock, room_id, NoTask)
          /\ applied' = MapInsert(applied, room_id, <<>>)
          /\ bcast' = MapInsert(bcast, room_id, <<>>)
          /\ task' = [task EXCEPT ![t].pc = "insert_clients",
                                  ![t].res = create_room(room_id)]
    /\ locks' = [locks EXCEPT !.clients = NoTask]
    /\ UNCHANGED <<connections, sink, counters>>

HandleCreate_rooms(t) ==
    /\ pc(t) = "create_rooms"
    /\ Free("rooms")
    /\ LET c == task[t].cid
           room_id == NewRoomId(rooms)
       IN /\ clients' = ClientSetRoom(clients, c, room_id)
          /\ rooms' = RoomCreate(rooms, room_id, c)
          /\ reducers' = MapInsert(reducers, room_id, DefaultReducer)
          /\ reducerLock' = MapInsert(reducerLock, room_id, NoTask)
          /\ applied' = MapInsert(applied, room_id, <<>>)
          /\ bcast' = MapInsert(bcast, room_id, <<>>)
          /\ task' = [task EXCEPT ![t].pc = "insert_clients",
                                  ![t].res = create_room(room_id)]
    /\ locks' = [locks EXCEPT !.clients = NoTask]
    /\ UNCHANGED <<connections, sink, counters>>

\* ------------------------------------------------------------- handle_join
HandleJoin_clients(t) ==
    /\ pc(t) = "join_clients"
    /\ Free("clients")
    /\ LET c == task[t].cid
       IN IF c \notin DOMAIN clients
          THEN /\ task' = [task EXCEPT ![t].pc = "error_connections",
                                       ![t].res = not_found(c, "Client not found")]
               /\ UNCHANGED locks
          ELSE IF clients[c] # NoRoom
          THEN /\ task' = [task EXCEPT ![t].pc = "error_connections",
                              ![t].res = client_error(c, "Leave current room before joining new")]
               /\ UNCHANGED locks
          ELSE /\ Goto(t, "join_rooms")
               /\ locks' = [locks EXCEPT !.clients = t]
    /\ UNCHANGED <<shared, reducerLock, sink, history, counters>>

HandleJoin_rooms(t) ==
    /\ pc(t) = "join_rooms"
    /\ Free("rooms")
    /\ LET c == task[t].cid
           room_id == task[t].ev.data
       IN IF room_id \notin DOMAIN rooms
          THEN /\ task' = [task EXCEPT ![t].pc = "error_connections",
                                       ![t].res = not_found(c, "Room not found")]
               /\ UNCHANGED <<clients, rooms>>
          ELSE /\ rooms' = RoomInsertClient(rooms, room_id, c)
               /\ clients' = ClientSetRoom(clients, c, room_id)
               /\ task' = [task EXCEPT ![t].pc = "insert_clients",
                                       ![t].res = join_room(room_id, c),
                                       ![t].vacant = (rooms[room_id].client_ids = {})]
    /\ locks' = [locks EXCEPT !.clients = NoTask]
    /\ UNCHANGED <<connections, reducers, reducerLock, sink, history, counters>>


\* --------------------------------------------------- insert_client_to_room
\* Called by process_event after a successful Create or Join, with the room
\* of the RoomResponse.  The three registry locks are taken in turn.
InsertClientToRoom_clients(t) ==
    /\ pc(t) = "insert_clients"
    /\ Free("clients")
    /\ locks' = [locks EXCEPT !.clients = t]
    /\ Goto(t, "insert_rooms")
    /\ UNCHANGED <<shared, reducerLock, sink, history, counters>>

InsertClientToRoom_rooms(t) ==
    /\ pc(t) = "insert_rooms"
    /\ Free("rooms")
    /\ locks' = [locks EXCEPT !.rooms = t]
    /\ Goto(t, "insert_connections")
    /\ UNCHANGED <<shared, reducerLock, sink, history, counters>>

\* With the three locks held: the lookups, then the (repeated) insertion of
\* the client into the room.  A failed lookup returns Err, which process_event
\* discards.
InsertClientToRoom_connections(t) ==
    /\ pc(t) = "insert_connections"
    /\ Free("connections")
    /\ LET c == task[t].cid
           room_id == task[t].res.target
       IN IF c \in DOMAIN clients /\ room_id \in DOMAIN rooms /\ c \in DOMAIN connections
          THEN /\ rooms' = RoomInsertClient(rooms, room_id, c)
               /\ clients' = ClientSetRoom(clients, c, room_id)
               /\ locks' = [locks EXCEPT !.connections = t]
               /\ task' = [task EXCEPT ![t].pc = "insert_reducer",
                                       ![t].conn = connections[c]]
          ELSE /\ locks' = [locks EXCEPT !.clients = NoTask, !.rooms = NoTask]
               /\ Goto(t, "react_clients")
               /\ UNCHANGED <<clients, rooms>>
    /\ UNCHANGED <<connections, reducers, reducerLock, sink, history, counters>>

\* room.reducer.lock().await, all registry locks still held.
InsertClientToRoom_reducer(t) ==
    /\ pc(t) = "insert_reducer"
    /\ reducerLock[task[t].res.target] = NoTask
    /\ reducerLock' = LockReducer(reducerLock, task[t].res.target, t)
    /\ Goto(t, "insert_state")
    /\ UNCHANGED <<shared, locks, sink, history, counters>>

\* As InsertClientToRoom_state, but the registry guards live on into the
\* send of the snapshot.
InsertClientToRoom_state_keep(t) ==
    /\ pc(t) = "insert_state"
    /\ task' = [task EXCEPT ![t].pc = "insert_send",
                            ![t].snap = reducers[task[t].res.target]]
    /\ reducerLock' = UnlockReducer(reducerLock, task[t].res.target)
    /\ UNCHANGED <<shared, locks, sink, history, counters>>

\* get_state() under the reducer guard; the guard and then the registry
\* guards are dropped.
InsertClientToRoom_state(t) ==
    /\ pc(t) = "insert_state"
    /\ task' = [task EXCEPT ![t].pc = "insert_send",
                            ![t].snap = reducers[task[t].res.target]]
    /\ reducerLock' = UnlockReducer(reducerLock, task[t].res.target)
    /\ locks' = [locks EXCEPT !.clients = NoTask, !.rooms = NoTask,
                              !.connections = NoTask]
    /\ UNCHANGED <<shared, sink, history, counters>>

\* connection.send(Response::StateSent(state_str))
InsertClientToRoom_send(t) ==
    /\ pc(t) = "insert_send"
    /\ Send(task[t].conn, StateSent(task[t].snap))
    /\ Goto(t, "react_clients")
    /\ UNCHANGED <<shared, locks, reducerLock, history, counters>>

\* connection.send(Response::StateSent(state_str)) returns Err: the failure
\* is logged and insert_client_to_room returns Ok.
InsertClientToRoom_send_err(t) ==
    /\ pc(t) = "insert_send"
    /\ Goto(t, "react_clients")
    /\ UNCHANGED <<shared, locks, reducerLock, sink, history, counters>>

\* ------------------------------------------ process_event: the Action arm
\* The block that looks the room's reducer up and clones its Arc.
ActionArm_clients(t) ==
    /\ pc(t) = "action_clients"
    /\ Free("clients")
    /\ LET c == task[t].cid
       IN IF c \notin DOMAIN clients
          THEN /\ task' = [task EXCEPT ![t].pc = "error_connections",
                                       ![t].res = not_found(c, "Client not found")]
               /\ UNCHANGED locks
          ELSE IF clients[c] = NoRoom
          THEN /\ task' = [task EXCEPT ![t].pc = "error_connections",
                                       ![t].res = not_found(c, "Client not in room")]
               /\ UNCHANGED locks
          ELSE /\ task' = [task EXCEPT ![t].pc = "action_rooms",
                                       ![t].room = clients[c]]
               /\ locks' = [locks EXCEPT !.clients = t]
    /\ UNCHANGED <<shared, reducerLock, sink, history, counters>>

ActionArm_rooms(t) ==
    /\ pc(t) = "action_rooms"
    /\ Free("rooms")
    /\ LET c == task[t].cid
           room_id == task[t].room
       IN IF room_id \notin DOMAIN rooms
          THEN task' = [task EXCEPT ![t].pc = "error_connections",
                                    ![t].res = not_found(c, "Room not found")]
          ELSE task' = [task EXCEPT ![t].pc = "handle_action_clients",
                                    ![t].arc = room_id]
    /\ locks' = [locks EXCEPT !.clients = NoTask]
    /\ UNCHANGED <<shared, reducerLock, sink, history, counters>>

\* ----------------------------------------------------------- handle_action
HandleAction_clients(t) ==
    /\ pc(t) = "handle_action_clients"
    /\ Free("clients")
    /\ LET c == task[t].cid
       IN IF c \notin DOMAIN clients
          THEN /\ task' = [task EXCEPT ![t].pc = "error_connections",
                                       ![t].res = not_found(c, "Client not found")]
               /\ UNCHANGED locks
          ELSE IF clients[c] = NoRoom
          THEN /\ task' = [task EXCEPT ![t].pc = "error_connections",
                                       ![t].res = not_found(c, "Client not in room")]
               /\ UNCHANGED locks
          ELSE /\ task' = [task EXCEPT ![t].pc = "handle_action_reducer",
                                       ![t].room = clients[c]]
               /\ locks' = [locks EXCEPT !.clients = t]
    /\ UNCHANGED <<shared, reducerLock, sink, history, counters>>

\* reducer.lock().await with the clients lock held; dispatch is entered and
\* reads the reducer's state.
HandleAction_reducer(t) ==
    /\ pc(t) = "handle_action_reducer"
    /\ reducerLock[task[t].arc] = NoTask
    /\ reducerLock' = LockReducer(reducerLock, task[t].arc, t)
    /\ task' = [task EXCEPT ![t].pc = "handle_action_dispatch",
                            ![t].snap = reducers[task[t].arc]]
    /\ UNCHANGED <<shared, locks, sink, history, counters>>

\* As HandleAction_dispatch, but the reducer guard is never dropped.
HandleAction_dispatch_keepGuard(t) ==
    /\ pc(t) = "handle_action_dispatch"
    /\ LET c == task[t].cid
           r == task[t].arc
           d == Dispatch(task[t].snap, c, task[t].act)
           payload == ActionResponse(task[t].act, d, c)
       IN IF d.ok
          THEN /\ reducers' = ReducerWrite(reducers, r, d.state)
               /\ applied' = [applied EXCEPT ![r] =
                                 Append(@, [author |-> c, act |-> task[t].act,
                                            payload |-> payload, ext |-> FALSE])]
               /\ task' = [task EXCEPT ![t].pc = "react_clients",
                               ![t].res = action(task[t].room, payload, r, Len(applied[r]) + 1)]
          ELSE /\ task' = [task EXCEPT ![t].pc = "error_connections",
                                       ![t].res = not_found(0, "Client not found")]
               /\ UNCHANGED <<reducers, applied>>
    /\ locks' = [locks EXCEPT !.clients = NoTask]
    /\ UNCHANGED <<clients, connections, rooms, reducerLock, sink, bcast, counters>>

\* dispatch(client_id, action).await completes; the result is mapped to a
\* RoomResponse or a ClientResponse; the guards are dropped.
HandleAction_dispatch(t) ==
    /\ pc(t) = "handle_action_dispatch"
    /\ LET c == task[t].cid
           r == task[t].arc
           d == Dispatch(task[t].snap, c, task[t].act)
           payload == ActionResponse(task[t].act, d, c)
       IN IF d.ok
          THEN /\ reducers' = ReducerWrite(reducers, r, d.state)
               /\ applied' = [applied EXCEPT ![r] =
                                 Append(@, [author |-> c, act |-> task[t].act,
                                            payload |-> payload, ext |-> FALSE])]
               /\ task' = [task EXCEPT ![t].pc = "react_clients",
                               ![t].res = action(task[t].room, payload, r, Len(applied[r]) + 1)]
          ELSE /\ task' = [task EXCEPT ![t].pc = "error_connections",
                                       ![t].res = not_found(0, "Client not found")]
               /\ UNCHANGED <<reducers, applied>>
    /\ reducerLock' = UnlockReducer(reducerLock, task[t].arc)
    /\ locks' = [locks EXCEPT !.clients = NoTask]
    /\ UNCHANGED <<clients, connections, rooms, sink, bcast, counters>>

\* ------------------------------------------------------------ handle_leave
HandleLeave_clients(t) ==
    /\ pc(t) = "leave_clients"
    /\ Free("clients")
    /\ LET c == task[t].cid
       IN IF c \notin DOMAIN clients
          THEN /\ task' = [task EXCEPT ![t].pc = "error_connections",
                                       ![t].res = not_found(c, "Client not found")]
               /\ UNCHANGED locks
          ELSE IF clients[c] = NoRoom
          THEN /\ task' = [task EXCEPT ![t].pc = "error_connections",
                                       ![t].res = not_found(c, "Client not in room")]
               /\ UNCHANGED locks
          ELSE /\ task' = [task EXCEPT ![t].pc = "leave_rooms",
                                       ![t].room = clients[c]]
               /\ locks' = [locks EXCEPT !.clients = t]
    /\ UNCHANGED <<shared, reducerLock, sink, history, counters>>

HandleLeave_rooms(t) ==
    /\ pc(t) = "leave_rooms"
    /\ Free("rooms")
    /\ LET c == task[t].cid
           room_id == task[t].room
       IN IF room_id \notin DOMAIN rooms
          THEN /\ task' = [task EXCEPT ![t].pc = "error_connections",
                                       ![t].res = not_found(c, "Room not found")]
               /\ UNCHANGED <<clients, rooms>>
          ELSE /\ rooms' = RoomRemoveClient(rooms, room_id, c)
               /\ clients' = ClientSetRoom(clients, c, NoRoom)
               /\ task' = [task EXCEPT ![t].pc = "react_clients",
                                       ![t].res = leave_room(room_id, c)]
    /\ locks' = [locks EXCEPT !.clients = NoTask]
    /\ UNCHANGED <<connections, reducers, reducerLock, sink, history, counters>>


\* -------------------------------------------------------- react_on_message
\* As ReactOnMessage_clients, but the connections registry is locked first.
ReactOnMessage_clients_sinksFirst(t) ==
    /\ pc(t) = "react_clients"
    /\ Free("connections")
    /\ locks' = [locks EXCEPT !.connections = t]
    /\ Goto(t, "react_rooms")
    /\ UNCHANGED <<shared, reducerLock, sink, history, counters>>

ReactOnMessage_clients(t) ==
    /\ pc(t) = "react_clients"
    /\ Free("clients")
    /\ locks' = [locks EXCEPT !.clients = t]
    /\ Goto(t, "react_rooms")
    /\ UNCHANGED <<shared, reducerLock, sink, history, counters>>

ReactOnMessage_rooms(t) ==
    /\ pc(t) = "react_rooms"
    /\ Free("rooms")
    /\ locks' = [locks EXCEPT !.rooms = t]
    /\ Goto(t, "react_connections")
    /\ UNCHANGED <<shared, reducerLock, sink, history, counters>>

\* With the three locks held the recipients' sinks are cloned; the guards are
\* dropped before anything is sent.
ReactOnMessage_connections(t) ==
    /\ pc(t) = "react_connections"
    /\ Free("connections")
    /\ LET room_id == task[t].res.target
           response == task[t].res.response
       IN IF room_id \notin DOMAIN rooms
          THEN /\ Return(t)
               /\ UNCHANGED bcast
          ELSE /\ IF Recipients(room_id) = {}
                  THEN Return(t)
                  ELSE task' = [task EXCEPT ![t].pc = "react_send",
                                            ![t].sendq = Recipients(room_id)]
               /\ bcast' = IF response.status = "Action"
                           THEN [bcast EXCEPT ![room_id] = Append(@, response.ver)]
                           ELSE bcast
    /\ locks' = [locks EXCEPT !.clients = NoTask, !.rooms = NoTask]
    /\ UNCHANGED <<shared, reducerLock, sink, applied, counters>>

\* connection.send(response.clone()) for one of the cloned sinks; the order
\* is the iteration order of the HashSet.
ReactOnMessage_send(t) ==
    /\ pc(t) = "react_send"
    /\ \E s \in task[t].sendq :
          /\ Send(s, task[t].res.response)
          /\ IF task[t].sendq = {s}
             THEN Return(t)
             ELSE task' = [task EXCEPT ![t].sendq = @ \ {s}]
    /\ UNCHANGED <<shared, locks, reducerLock, history, counters>>

\* As ReactOnMessage_send_err, but the first failed send ends the broadcast.
ReactOnMessage_send_err_abort(t) ==
    /\ pc(t) = "react_send"
    /\ task[t].sendq # {}
    /\ Return(t)
    /\ UNCHANGED <<shared, locks, reducerLock, sink, history, counters>>

\* connection.send(response.clone()) returns Err for one of the cloned sinks:
\* nothing is delivered, the Err is dropped and the loop goes on.
ReactOnMessage_send_err(t) ==
    /\ pc(t) = "react_send"
    /\ \E s \in task[t].sendq :
          IF task[t].sendq = {s}
          THEN Return(t)
          ELSE task' = [task EXCEPT ![t].sendq = @ \ {s}]
    /\ UNCHANGED <<shared, locks, reducerLock, sink, history, counters>>

\* -------------------------------------------------------- react_with_error
ReactWithError_connections(t) ==
    /\ pc(t) = "error_connections"
    /\ Free("connections")
    /\ LET client_id == task[t].res.target
       IN IF client_id \in DOMAIN connections
          THEN task' = [task EXCEPT ![t].pc = "error_send",
                                    ![t].conn = connections[client_id]]
          ELSE Return(t)
    /\ UNCHANGED <<shared, locks, reducerLock, sink, history, counters>>

ReactWithError_send(t) ==
    /\ pc(t) = "error_send"
    /\ Send(task[t].conn, task[t].res.response)
    /\ Return(t)
    /\ UNCHANGED <<shared, locks, reducerLock, history, counters>>

\* sender.send(error) returns Err: the failure is logged, nothing else.
ReactWithError_send_err(t) ==
    /\ pc(t) = "error_send"
    /\ Return(t)
    /\ UNCHANGED <<shared, locks, reducerLock, sink, history, counters>>

\* ------------------------------------------------ remove_client_connection
\* Called by handle_stream once handle_rx has returned.
RemoveClientConnection_clients(t) ==
    /\ pc(t) = "remove_clients"
    /\ Free("clients")
    /\ LET c == task[t].cid
       IN IF c \in DOMAIN clients /\ clients[c] # NoRoom
          THEN /\ task' = [task EXCEPT ![t].pc = "remove_rooms", ![t].room = clients[c]]
               /\ UNCHANGED clients
          ELSE /\ clients' = MapRemove(clients, c)
               /\ Goto(t, "remove_connections")
    /\ locks' = [locks EXCEPT !.clients = t]
    /\ UNCHANGED <<connections, rooms, reducers, reducerLock, sink, history, counters>>

RemoveClientConnection_rooms(t) ==
    /\ pc(t) = "remove_rooms"
    /\ Free("rooms")
    /\ LET c == task[t].cid
           room_id == task[t].room
       IN /\ rooms' = IF room_id \in DOMAIN rooms
                      THEN RoomRemoveClient(rooms, room_id, c)
                      ELSE rooms
          /\ clients' = MapRemove(clients, c)
    /\ Goto(t, "remove_connections")
    /\ UNCHANGED <<connections, reducers, locks, reducerLock, sink, history, counters>>

RemoveClientConnection_connections(t) ==
    /\ pc(t) = "remove_connections"
    /\ Free("connections")
    /\ connections' = ConnectionsRemove(connections, task[t].cid)
    /\ locks' = [locks EXCEPT !.clients = NoTask]
    /\ task' = [task EXCEPT ![t] = [InitTask EXCEPT !.pc = "done",
                                                    !.cid = task[t].cid,
                                                    !.room = task[t].room]]
    /\ UNCHANGED <<clients, rooms, reducers, reducerLock, sink, history, counters>>

\* --------------------------------------------------------- extern_dispatch
\* AbstractJoint::dispatch called by the host with any client id and any
\* payload.
ExternDispatch_clients(t, client_id, raw) ==
    /\ pc(t) = "idle"
    /\ ops < MaxOps
    /\ ops' = ops + 1
    /\ Free("clients")
    /\ IF client_id \notin DOMAIN clients
       THEN /\ ReturnExtern(t, ClientResponse(client_id, "Client not found"))
            /\ UNCHANGED locks
       ELSE IF clients[client_id] = NoRoom
       THEN /\ ReturnExtern(t, ClientResponse(client_id, "Client not in room"))
            /\ UNCHANGED locks
       ELSE /\ task' = [task EXCEPT ![t].pc = "extern_rooms",
                                    ![t].cid = client_id,
                                    ![t].ev = [type |-> "Action", data |-> raw],
                                    ![t].room = clients[client_id]]
            /\ locks' = [locks EXCEPT !.clients = t]
    /\ UNCHANGED <<shared, reducerLock, sink, history>>

ExternDispatch_rooms(t) ==
    /\ pc(t) = "extern_rooms"
    /\ Free("rooms")
    /\ IF task[t].room \notin DOMAIN rooms
       THEN /\ ReturnExtern(t, ClientResponse(task[t].cid, "Room not found"))
            /\ locks' = [locks EXCEPT !.clients = NoTask]
       ELSE /\ Goto(t, "extern_reducer")
            /\ locks' = [locks EXCEPT !.rooms = t]
    /\ UNCHANGED <<shared, reducerLock, sink, history, counters>>

\* room.reducer.lock().await with clients and rooms held; the payload is
\* parsed under the guard and dispatch is entered.
ExternDispatch_reducer(t) ==
    /\ pc(t) = "extern_reducer"
    /\ reducerLock[task[t].room] = NoTask
    /\ IF ParseAction(task[t].ev.data).ok
       THEN /\ reducerLock' = LockReducer(reducerLock, task[t].room, t)
            /\ task' = [task EXCEPT ![t].pc = "extern_dispatch",
                                    ![t].act = ParseAction(task[t].ev.data),
                                    ![t].snap = reducers[task[t].room]]
            /\ UNCHANGED locks
       ELSE /\ ReturnExtern(t, ClientResponse(task[t].cid, "parse error"))
            /\ locks' = [locks EXCEPT !.clients = NoTask, !.rooms = NoTask]
            /\ UNCHANGED reducerLock
    /\ UNCHANGED <<shared, sink, history, counters>>

\* As ExternDispatch_dispatch, but the new state is returned to the host
\* without being stored in the room's reducer.
ExternDispatch_dispatch_unapplied(t) ==
    /\ pc(t) = "extern_dispatch"
    /\ LET c == task[t].cid
           r == task[t].room
           d == Dispatch(task[t].snap, c, task[t].act)
           payload == ActionResponse(task[t].act, d, c)
       IN IF d.ok
          THEN ReturnExtern(t, RoomResponse(r, payload))
          ELSE ReturnExtern(t, ClientResponse(c, d.data))
    /\ reducerLock' = UnlockReducer(reducerLock, task[t].room)
    /\ locks' = [locks EXCEPT !.clients = NoTask, !.rooms = NoTask]
    /\ UNCHANGED <<shared, sink, history, counters>>

\* dispatch(client_id, parsed_action).await completes; its result is
\* returned to the host.
ExternDispatch_dispatch(t) ==
    /\ pc(t) = "extern_dispatch"
    /\ LET c == task[t].cid
           r == task[t].room
           d == Dispatch(task[t].snap, c, task[t].act)
           payload == ActionResponse(task[t].act, d, c)
       IN IF d.ok
          THEN /\ reducers' = ReducerWrite(reducers, r, d.state)
               /\ applied' = [applied EXCEPT ![r] =
                                 Append(@, [author |-> c, act |-> task[t].act,
                                            payload |-> payload, ext |-> TRUE])]
               /\ ReturnExtern(t, RoomResponse(r, payload))
          ELSE /\ ReturnExtern(t, ClientResponse(c, d.data))
               /\ UNCHANGED <<reducers, applied>>
    /\ reducerLock' = UnlockReducer(reducerLock, task[t].room)
    /\ locks' = [locks EXCEPT !.clients = NoTask, !.rooms = NoTask]
    /\ UNCHANGED <<clients, connections, rooms, sink, bcast, counters>>

\* ------------------------------------------------------------ cancellation
\* The awaits of handle_stream: those of add_client_connection, of the loop
\* of handle_rx and of remove_client_connection.
SuspensionPoints ==
    {"start", "add_connections", "rx_next", "process_event",
     "create_clients", "create_rooms", "join_clients", "join_rooms",
     "insert_clients", "insert_rooms", "insert_connections", "insert_reducer",
     "insert_send", "action_clients", "action_rooms", "handle_action_clients",
     "handle_action_reducer", "handle_action_dispatch", "leave_clients",
     "leave_rooms", "react_clients", "react_rooms", "react_connections",
     "react_send", "error_connections", "error_send",
     "remove_clients", "remove_rooms", "remove_connections"}

\* The future of handle_stream is dropped at an await: its guards are dropped
\* with it and nothing after the await runs.
Cancel(t) ==
    /\ pc(t) \in SuspensionPoints
    /\ task' = [task EXCEPT ![t] = [InitTask EXCEPT !.pc = "cancelled",
                                                    !.cid = task[t].cid]]
    /\ locks' = [l \in DOMAIN locks |-> IF locks[l] = t THEN NoTask ELSE locks[l]]
    /\ reducerLock' = [r \in DOMAIN reducerLock |->
                          IF reducerLock[r] = t THEN NoTask ELSE reducerLock[r]]
    /\ UNCHANGED <<shared, sink, history, counters>>

\* ------------------------------------------------------------------- Next
\* The messages a stream may yield.
RxAny(t) ==
    \/ RxNext(t, [type |-> "Create"])
    \/ \E r \in JoinTargets : RxNext(t, [type |-> "Join", data |-> r])
    \/ \E raw \in RawActions : RxNext(t, [type |-> "Action", data |-> raw])
    \/ RxNext(t, [type |-> "Leave"])

\* The steps of a connection task after a message was read.
Handle(t) ==
    \/ AddClientConnection_connections(t)
    \/ RxEnd(t)
    \/ ProcessEvent(t)
    \/ HandleCreate_clients(t)
    \/ HandleCreate_rooms(t)
    \/ HandleJoin_clients(t)
    \/ HandleJoin_rooms(t)
    \/ InsertClientToRoom_clients(t)
    \/ InsertClientToRoom_rooms(t)
    \/ InsertClientToRoom_connections(t)
    \/ InsertClientToRoom_reducer(t)
    \/ InsertClientToRoom_state(t)
    \/ InsertClientToRoom_send(t)
    \/ ActionArm_clients(t)
    \/ ActionArm_rooms(t)
    \/ HandleAction_clients(t)
    \/ HandleAction_reducer(t)
    \/ HandleAction_dispatch(t)
    \/ HandleLeave_clients(t)
    \/ HandleLeave_rooms(t)
    \/ ReactOnMessage_clients(t)
    \/ ReactOnMessage_rooms(t)
    \/ ReactOnMessage_connections(t)
    \/ ReactOnMessage_send(t)
    \/ ReactWithError_connections(t)
    \/ ReactWithError_send(t)
    \/ RemoveClientConnection_clients(t)
    \/ RemoveClientConnection_rooms(t)
    \/ RemoveClientConnection_connections(t)

ExtStep(t) ==
    \/ \E c \in ClientIds, raw \in RawActions : ExternDispatch_clients(t, c, raw)
    \/ ExternDispatch_rooms(t)
    \/ ExternDispatch_reducer(t)
    \/ ExternDispatch_dispatch(t)

\* handle_stream draws new_client_id, any value of the range, held by a
\* registered client or not, and registers the connection under it.
Accept == \E t \in Conns : \E id \in ClientIds : AddClientConnection_clients(t, id)

Next ==
    \/ Accept
    \/ \E t \in Conns : RxAny(t)
    \/ \E t \in Conns : Handle(t)
    \/ \E t \in Exts : ExtStep(t)

Spec == Init /\ [][Next]_vars

\* The same program with connection tasks that may be cancelled.
NextCancel ==
    \/ Next
    \/ \E t \in Conns : Cancel(t)

SpecCancel == Init /\ [][NextCancel]_vars

\* The two-member scenario: the streams carry Create, Join, Leave and
\* well-formed actions only, and the host makes no call.
RxMember(t) ==
    \/ StreamNext(t, [type |-> "Create"], MaxMemberMsgs)
    \/ StreamNext(t, [type |-> "Join", data |-> 0], MaxMemberMsgs)
    \/ StreamNext(t, [type |-> "Action", data |-> "IdentifyUser:n"], MaxMemberMsgs)
    \/ StreamNext(t, [type |-> "Leave"], MaxMemberMsgs)

NextMembers ==
    \/ Accept
    \/ \E t \in Conns : RxMember(t)
    \/ \E t \in Conns : Handle(t)

SpecMembers == Init /\ [][NextMembers]_vars

\* The owner-and-guest scenario: the first connection creates a room and
\* sends well-formed actions, the second joins room 0 and leaves.
RxOwner(t) ==
    \/ StreamNext(t, [type |-> "Create"], MaxMemberMsgs)
    \/ StreamNext(t, [type |-> "Action", data |-> "IdentifyUser:n"], MaxMemberMsgs)

RxGuest(t) ==
    \/ StreamNext(t, [type |-> "Join", data |-> 0], MaxMemberMsgs)
    \/ StreamNext(t, [type |-> "Leave"], MaxMemberMsgs)

NextRoles ==
    \/ Accept
    \/ RxOwner(1)
    \/ RxGuest(2)
    \/ \E t \in Conns : Handle(t)

SpecRoles == Init /\ [][NextRoles]_vars

\* The owner-and-guest scenario with sinks whose send may fail, over
\* MaxFlakyMsgs messages.
RxOwnerFlaky(t) ==
    \/ StreamNext(t, [type |-> "Create"], MaxFlakyMsgs)
    \/ StreamNext(t, [type |-> "Action", data |-> "IdentifyUser:n"], MaxFlakyMsgs)

RxGuestFlaky(t) ==
    \/ StreamNext(t, [type |-> "Join", data |-> 0], MaxFlakyMsgs)
    \/ StreamNext(t, [type |-> "Leave"], MaxFlakyMsgs)

SendFails(t) ==
    \/ InsertClientToRoom_send_err(t)
    \/ ReactOnMessage_send_err(t)
    \/ ReactWithError_send_err(t)

NextSendFail ==
    \/ Accept
    \/ RxOwnerFlaky(1)
    \/ RxGuestFlaky(2)
    \/ \E t \in Conns : Handle(t)
    \/ \E t \in Conns : SendFails(t)

SpecSendFail == Init /\ [][NextSendFail]_vars

\* The owner-and-guest scenario over MaxFairMsgs messages under fair
\* scheduling: a connection task whose next step can be taken takes it, and
\* every stream is finite, so that rx.next() yields Err once no message is
\* left.
RxOwnerFair(t) ==
    \/ StreamNext(t, [type |-> "Create"], MaxFairMsgs)
    \/ StreamNext(t, [type |-> "Action", data |-> "IdentifyUser:n"], MaxFairMsgs)

RxGuestFair(t) ==
    \/ StreamNext(t, [type |-> "Join", data |-> 0], MaxFairMsgs)
    \/ StreamNext(t, [type |-> "Leave"], MaxFairMsgs)

NextFair ==
    \/ Accept
    \/ RxOwnerFair(1)
    \/ RxGuestFair(2)
    \/ \E t \in Conns : Handle(t)

SpecFair ==
    /\ Init
    /\ [][NextFair]_vars
    /\ \A t \in Conns : WF_vars(Handle(t))


\* The owner-and-guest scenario with a guest that sends actions too: the
\* first connection creates a room and sends well-formed actions, the second
\* joins room 0, sends well-formed actions and leaves.
RxGuestActs(t) ==
    \/ RxGuest(t)
    \/ StreamNext(t, [type |-> "Action", data |-> "IdentifyUser:n"], MaxMemberMsgs)

NextJoiner ==
    \/ Accept
    \/ RxOwner(1)
    \/ RxGuestActs(2)
    \/ \E t \in Conns : Handle(t)

SpecJoiner == Init /\ [][NextJoiner]_vars

\* The client_token values of inbound messages: strings that spell the
\* client ids, so that a message can name another client.
Tokens == {"0", "1"}

\* The two-member scenario with messages that carry a client_token.
RxToken(t) ==
    \E tok \in Tokens :
        \/ StreamNext(t, [type |-> "Create", client_token |-> tok], MaxTokenMsgs)
        \/ StreamNext(t, [type |-> "Join", data |-> 0, client_token |-> tok], MaxTokenMsgs)
        \/ StreamNext(t, [type |-> "Action", data |-> "IdentifyUser:n",
                          client_token |-> tok], MaxTokenMsgs)
        \/ StreamNext(t, [type |-> "Leave", client_token |-> tok], MaxTokenMsgs)

NextToken ==
    \/ Accept
    \/ \E t \in Conns : RxToken(t)
    \/ \E t \in Conns : Handle(t)

SpecToken == Init /\ [][NextToken]_vars

\* ============================================================= properties
RoomsOf(c) == {r \in DOMAIN rooms : c \in rooms[r].client_ids}
\* The client id is in no registry and in no room.
Absent(c) == c \notin DOMAIN clients /\ c \notin DOMAIN connections /\ RoomsOf(c) = {}

\* C1: at every quiescent point, a registered client's room_id is r exactly
\* when r is a room that lists the client as a member, and no client id is
\* in the member set of two rooms.
MembershipConsistent ==
    Quiescent =>
        /\ \A c \in DOMAIN clients :
              \A r \in DOMAIN rooms \cup ({clients[c]} \ {NoRoom}) :
                 (clients[c] = r) <=> (r \in DOMAIN rooms /\ c \in rooms[r].client_ids)
        /\ \A c \in ClientIds : Cardinality(RoomsOf(c)) <= 1

\* C2: at every quiescent point every key of connections is a key of clients.
SinksHaveClients == Quiescent => DOMAIN connections \subseteq DOMAIN clients

\* A quiescent state after one connection was torn down while another is
\* still registered with its sink.
SinksWitness ==
    /\ Quiescent
    /\ \E t \in Conns : pc(t) = "done"
    /\ \E t \in Conns : pc(t) = "rx_next" /\ task[t].cid \in DOMAIN connections

\* The room whose reducer task t is inside of (dispatch or get_state), or
\* NoRoom.
InReducer(t) ==
    CASE pc(t) = "handle_action_dispatch" -> task[t].arc
      [] pc(t) = "extern_dispatch" -> task[t].room
      [] pc(t) = "insert_state" -> task[t].res.target
      [] OTHER -> NoRoom

\* C3: a task inside dispatch or get_state of a room's reducer holds that
\* reducer's lock, and no two tasks are inside the same reducer.
ReducerExclusive ==
    /\ \A t \in Tasks : InReducer(t) # NoRoom => reducerLock[InReducer(t)] = t
    /\ \A t1, t2 \in Tasks :
          (t1 # t2 /\ InReducer(t1) # NoRoom) => InReducer(t1) # InReducer(t2)

\* The host is inside dispatch on a room while a member's Action for the same
\* room is on its way to the reducer.
ReducerWitness ==
    \E e \in Exts, t \in Conns :
        /\ pc(e) = "extern_dispatch"
        /\ pc(t) = "handle_action_clients"
        /\ task[t].arc = task[e].room

IsAction(resp) == resp.status = "Action"

\* C4: at every sink the Action responses of a room arrive in the order in
\* which the actions were applied to the room's reducer.
ActionsInAppliedOrder ==
    \A s \in Conns : \A i, j \in DOMAIN sink[s] :
        (i < j /\ IsAction(sink[s][i]) /\ IsAction(sink[s][j])
               /\ sink[s][i].room = sink[s][j].room)
            => sink[s][i].ver < sink[s][j].ver

\* C5: once all tasks are at rest, every successful dispatch on a room has
\* been broadcast to the room exactly once, and nothing else was broadcast as
\* an Action.
EveryDispatchBroadcast ==
    Quiescent =>
        \A r \in DOMAIN rooms :
            /\ \A i \in 1..Len(applied[r]) :
                  Cardinality({k \in DOMAIN bcast[r] : bcast[r][k] = i}) = 1
            /\ \A k \in DOMAIN bcast[r] : bcast[r][k] \in 1..Len(applied[r])

\* The state obtained by applying the logged actions one after another to a
\* fresh reducer.
RECURSIVE Replay(_)
Replay(log) ==
    IF log = <<>> THEN DefaultReducer
    ELSE LET n == Len(log)
         IN Dispatch(Replay(SubSeq(log, 1, n - 1)), log[n].author, log[n].act).state

\* C6: the state of every room's reducer is the result of applying its
\* successful dispatches in lock order, every ActionResult carries the state
\* right after its own action, and that is what members receive.
NoLostUpdate ==
    \A r \in DOMAIN rooms :
        /\ reducers[r] = Replay(applied[r])
        /\ \A i \in 1..Len(applied[r]) :
              applied[r][i].payload.state = Replay(SubSeq(applied[r], 1, i))
        /\ \A s \in Conns : \A k \in DOMAIN sink[s] :
              (IsAction(sink[s][k]) /\ sink[s][k].room = r)
                  => sink[s][k].message = applied[r][sink[s][k].ver].payload

\* A room that took a dispatch from a member's message and one from the host.
NoLostUpdateWitness ==
    \E r \in DOMAIN rooms :
        /\ Len(applied[r]) >= 2
        /\ \E i, j \in 1..Len(applied[r]) : applied[r][i].ext /\ ~applied[r][j].ext

RemovePositions == {"remove_clients", "remove_rooms", "remove_connections"}

\* C7: the steps of remove_client_connection for client c change no other
\* client's record, sink or membership, and when they are done c is in no
\* registry and in no room.
TeardownRemoves ==
    [][\A t \in Conns :
          (pc(t) \in RemovePositions /\ task'[t].pc # pc(t)) =>
             LET c == task[t].cid
             IN /\ \A o \in DOMAIN clients \ {c} :
                      o \in DOMAIN clients' /\ clients'[o] = clients[o]
                /\ \A o \in DOMAIN connections \ {c} :
                      o \in DOMAIN connections' /\ connections'[o] = connections[o]
                /\ DOMAIN rooms' = DOMAIN rooms
                /\ \A r \in DOMAIN rooms :
                      rooms'[r].client_ids \ {c} = rooms[r].client_ids \ {c}
                /\ DOMAIN clients' \subseteq DOMAIN clients
                /\ DOMAIN connections' \subseteq DOMAIN connections
                /\ reducers' = reducers
                /\ (task'[t].pc = "done" => Absent(c)')]_vars

HasRoomLeft(log, c) ==
    \E k \in DOMAIN log : log[k].status = "RoomLeft" /\ log[k].message = c

\* C8: when the connection of a client in room r has been torn down, every
\* remaining member of r has been sent RoomLeft(client id).
TeardownAnnounced ==
    [][\A t \in Conns :
          (pc(t) \in RemovePositions /\ task'[t].pc = "done"
                                     /\ task[t].room \in DOMAIN rooms) =>
             \A m \in rooms'[task[t].room].client_ids :
                 m \in DOMAIN connections' =>
                     HasRoomLeft(sink'[connections'[m]], task[t].cid)]_vars

\* The awaits of a connection task whose client has been registered.
RegisteredPoints == SuspensionPoints \ {"start", "add_connections"}

\* C9: a connection task cancelled at an await after its registration leaves
\* its client in no registry and in no room.
CancelTearsDown ==
    [][\A t \in Conns :
          (pc(t) \in RegisteredPoints /\ task'[t].pc = "cancelled")
              => Absent(task[t].cid)']_vars

\* C10: the step of handle_create that inserts the room adds exactly one room,
\* owned by and containing only the creator, points the creator at it and
\* leaves every other room, reducer, client and sink as it was; the
\* insert_client_to_room that follows changes none of them.
CreateFrame ==
    [][\A t \in Conns :
          /\ (pc(t) = "create_rooms" /\ task'[t].pc # pc(t)) =>
                LET c == task[t].cid
                    r == task'[t].res.target
                IN /\ r \notin DOMAIN rooms
                   /\ DOMAIN rooms' = DOMAIN rooms \cup {r}
                   /\ rooms'[r] = [owner_id |-> c, client_ids |-> {c}]
                   /\ \A q \in DOMAIN rooms : rooms'[q] = rooms[q] /\ reducers'[q] = reducers[q]
                   /\ reducers'[r] = DefaultReducer
                   /\ clients' = [clients EXCEPT ![c] = r]
                   /\ connections' = connections
          /\ (/\ pc(t) \in {"insert_clients", "insert_rooms", "insert_connections",
                            "insert_reducer", "insert_state", "insert_send"}
              /\ task[t].res.response.status = "RoomCreated"
              /\ task'[t].pc # pc(t)) => UNCHANGED shared]_vars

InsertPositions ==
    {"insert_clients", "insert_rooms", "insert_connections", "insert_reducer",
     "insert_state", "insert_send"}

\* C11: the step of handle_join that finds the room adds the joining client
\* to the room's members and points the client at the room, keeping the
\* previous members, and changes no other room, client, sink or reducer; the
\* insert_client_to_room that follows changes none of them.
JoinFrame ==
    [][\A t \in Conns :
          /\ (pc(t) = "join_rooms" /\ task'[t].pc # pc(t)
                                   /\ task[t].ev.data \in DOMAIN rooms) =>
                LET c == task[t].cid
                    r == task[t].ev.data
                IN /\ task'[t].res = join_room(r, c)
                   /\ DOMAIN rooms' = DOMAIN rooms
                   /\ rooms'[r].client_ids = rooms[r].client_ids \cup {c}
                   /\ rooms'[r].owner_id = rooms[r].owner_id
                   /\ \A q \in DOMAIN rooms \ {r} : rooms'[q] = rooms[q]
                   /\ clients' = [clients EXCEPT ![c] = r]
                   /\ reducers' = reducers
                   /\ connections' = connections
          /\ (/\ pc(t) \in InsertPositions
              /\ task[t].res.response.status = "RoomJoined"
              /\ task'[t].pc # pc(t)) => UNCHANGED shared]_vars

ReactPositions == {"react_clients", "react_rooms", "react_connections", "react_send"}

\* C12: the step of handle_leave that finds the room removes only the leaver
\* from the room's members and clears the leaver's room_id; the other members,
\* their records, every reducer and every sink stay as they were, the leaver
\* stays registered, the broadcast that follows changes no registry, and a
\* Create or Join of a registered client without a room is not rejected.
LeaveFrame ==
    [][\A t \in Conns :
          /\ (pc(t) = "leave_rooms" /\ task'[t].pc # pc(t)
                                    /\ task[t].room \in DOMAIN rooms) =>
                LET c == task[t].cid
                    r == task[t].room
                IN /\ task'[t].res = leave_room(r, c)
                   /\ DOMAIN rooms' = DOMAIN rooms
                   /\ rooms'[r].client_ids = rooms[r].client_ids \ {c}
                   /\ rooms'[r].owner_id = rooms[r].owner_id
                   /\ \A q \in DOMAIN rooms \ {r} : rooms'[q] = rooms[q]
                   /\ c \in DOMAIN clients
                   /\ clients' = [clients EXCEPT ![c] = NoRoom]
                   /\ reducers' = reducers
                   /\ connections' = connections
                   /\ c \in DOMAIN connections
          /\ (/\ pc(t) \in ReactPositions
              /\ task[t].res.response.status = "RoomLeft"
              /\ task'[t].pc # pc(t)) =>
                 /\ UNCHANGED shared
                 /\ clients[task[t].cid] = NoRoom
          /\ (/\ pc(t) \in {"create_clients", "join_clients"}
              /\ task'[t].pc # pc(t)
              /\ task[t].cid \in DOMAIN clients
              /\ clients[task[t].cid] = NoRoom) =>
                 task'[t].pc \in {"create_rooms", "join_rooms"}]_vars

\* C13: no step removes a room or changes a room's owner, and the step of
\* handle_create that inserts a room gives it an id greater than the id of
\* every room created before.
RoomIdsIncrease ==
    [][/\ DOMAIN rooms \subseteq DOMAIN rooms'
       /\ \A q \in DOMAIN rooms : rooms'[q].owner_id = rooms[q].owner_id
       /\ \A r \in DOMAIN rooms' \ DOMAIN rooms : \A q \in DOMAIN rooms : r > q
       /\ \A t \in Conns :
             (pc(t) = "create_rooms" /\ task'[t].pc # pc(t)) =>
                /\ task'[t].res.response.status = "RoomCreated"
                /\ task'[t].res.target \in DOMAIN rooms'
                /\ \A q \in DOMAIN rooms : task'[t].res.target > q]_vars

\* Create, Leave, Create by the sole member of room 0: the second room is
\* room 1 and room 0 is still there, empty.
RoomIdsWitness ==
    \E t \in Conns :
        /\ pc(t) = "insert_clients"
        /\ task[t].res = create_room(1)
        /\ rooms[0].owner_id = task[t].cid
        /\ rooms[0].client_ids = {}
        /\ rooms[1].client_ids = {task[t].cid}

\* The room the client is recorded in lists it as a member.
InRoom(c) ==
    /\ c \in DOMAIN clients
    /\ clients[c] \in DOMAIN rooms
    /\ c \in rooms[clients[c]].client_ids

\* C14: a Create or a Join (for any room id) of a client that is in a room
\* yields a ClientError addressed to the sender, which is sent on the
\* sender's own sink; none of these steps changes clients, rooms, sinks
\* registered or reducers, and the client is still in its room afterwards.
RejectInRoom ==
    [][\A t \in Conns :
          LET c == task[t].cid
          IN /\ (/\ pc(t) \in {"create_clients", "join_clients"}
                 /\ task'[t].pc # pc(t)
                 /\ c \in DOMAIN clients
                 /\ clients[c] # NoRoom) =>
                    /\ task'[t].pc = "error_connections"
                    /\ task'[t].res.response.status = "ClientError"
                    /\ task'[t].res.target = c
                    /\ UNCHANGED <<shared, sink>>
             /\ (/\ pc(t) = "error_connections"
                 /\ task[t].res.response.status = "ClientError"
                 /\ task'[t].pc # pc(t)) =>
                    /\ task'[t].pc = "error_send"
                    /\ task'[t].conn = t
                    /\ UNCHANGED <<shared, sink>>
             /\ (/\ pc(t) = "error_send"
                 /\ task[t].res.response.status = "ClientError"
                 /\ task'[t].pc # pc(t)) =>
                    /\ sink' = [sink EXCEPT ![t] = Append(@, task[t].res.response)]
                    /\ UNCHANGED shared
                    /\ InRoom(c)]_vars

\* C15: a Join of a client without a room that names an id that is not a key
\* of rooms yields NotFound "Room not found" addressed to the sender, which is
\* sent on the sender's own sink only; no step of the path changes clients,
\* rooms, connections or reducers, and the client is still without a room.
JoinUnknownRoom ==
    [][\A t \in Conns :
          LET c == task[t].cid
              viaJoin == /\ task[t].ev.type = "Join"
                         /\ task[t].res.response = [status |-> "NotFound",
                                                    message |-> "Room not found"]
          IN /\ (/\ pc(t) = "join_rooms"
                 /\ task'[t].pc # pc(t)
                 /\ task[t].ev.data \notin DOMAIN rooms) =>
                    /\ task'[t].pc = "error_connections"
                    /\ task'[t].res = not_found(c, "Room not found")
                    /\ task'[t].res.target = c
                    /\ clients[c] = NoRoom
                    /\ UNCHANGED <<shared, sink>>
             /\ (pc(t) = "error_connections" /\ viaJoin /\ task'[t].pc # pc(t)) =>
                    /\ task'[t].pc = "error_send"
                    /\ task'[t].conn = t
                    /\ UNCHANGED <<shared, sink>>
             /\ (pc(t) = "error_send" /\ viaJoin /\ task'[t].pc # pc(t)) =>
                    /\ sink' = [sink EXCEPT ![t] = Append(@, task[t].res.response)]
                    /\ UNCHANGED shared
                    /\ clients[c] = NoRoom]_vars

\* The positions of a connection task on the way of an Action or a Leave of
\* a client that is in no room.
IdlePath ==
    {"process_event", "action_clients", "leave_clients", "error_connections", "error_send"}

\* C16: an Action (whatever its payload) or a Leave of a registered client
\* that is in no room ends in a NotFound addressed to the sender and sent on
\* the sender's own sink; no reducer is entered and clients, rooms and
\* connections stay as they were.
IdleRejected ==
    [][\A t \in Conns :
          LET c == task[t].cid
          IN (/\ pc(t) \in IdlePath
              /\ task'[t].pc # pc(t)
              /\ task[t].ev.type \in {"Action", "Leave"}
              /\ c \in DOMAIN clients
              /\ clients[c] = NoRoom) =>
                 /\ task'[t].pc \in IdlePath \cup {"rx_next"}
                 /\ UNCHANGED <<shared, reducerLock, applied>>
                 /\ (task'[t].pc = "error_connections" =>
                        /\ task'[t].res.response.status = "NotFound"
                        /\ task'[t].res.target = c)
                 /\ (pc(t) = "error_connections" =>
                        task'[t].pc = "error_send" /\ task'[t].conn = t)
                 /\ (pc(t) = "error_send" =>
                        sink' = [sink EXCEPT ![t] = Append(@, task[t].res.response)])]_vars

\* C17: an Action of a client in a room whose payload does not parse yields
\* ServerError "Invalid action" addressed to the sender; it is sent on the
\* sender's own sink and on no other, no reducer is entered, nothing is
\* recorded as applied or broadcast, no registry changes, and the task is
\* back in the loop of handle_rx, ready for the next message.
BadPayload ==
    [][\A t \in Conns :
          LET c == task[t].cid
              isServerError == task[t].res.response.status = "ServerError"
          IN /\ (/\ pc(t) = "process_event"
                 /\ task'[t].pc # pc(t)
                 /\ task[t].ev.type = "Action"
                 /\ ~ParseAction(task[t].ev.data).ok
                 /\ InRoom(c)) =>
                    /\ task'[t].pc = "error_connections"
                    /\ task'[t].res.response =
                          [status |-> "ServerError", message |-> "Invalid action"]
                    /\ task'[t].res.target = c
                    /\ UNCHANGED <<shared, sink, reducerLock, history>>
             /\ (pc(t) = "error_connections" /\ isServerError /\ task'[t].pc # pc(t)) =>
                    /\ task'[t].pc = "error_send"
                    /\ task'[t].conn = t
                    /\ UNCHANGED <<shared, sink, reducerLock, history>>
             /\ (pc(t) = "error_send" /\ isServerError /\ task'[t].pc # pc(t)) =>
                    /\ sink' = [sink EXCEPT ![t] = Append(@, task[t].res.response)]
                    /\ task'[t].pc = "rx_next"
                    /\ UNCHANGED <<shared, reducerLock, history>>]_vars

\* C18: when dispatch returns a reject reason for an action of client c, the
\* response of handle_action is a ClientError that carries the reason and is
\* addressed to c, and nothing is recorded as broadcast.
RejectionToOriginator ==
    [][\A t \in Conns :
          LET c == task[t].cid
              d == Dispatch(task[t].snap, c, task[t].act)
          IN (pc(t) = "handle_action_dispatch" /\ task'[t].pc # pc(t) /\ ~d.ok) =>
                /\ task'[t].pc = "error_connections"
                /\ task'[t].res.response = [status |-> "ClientError", message |-> d.data]
                /\ task'[t].res.target = c
                /\ UNCHANGED <<bcast, sink>>]_vars

ErrorStatuses == {"NotFound", "ClientError", "ServerError"}

\* C19: an error response produced while a connection task processes a
\* message of its client is addressed to that client, is sent on the sink of
\* that connection, and is appended to no other sink.
ErrorsToSender ==
    [][\A t \in Conns :
          /\ (task'[t].pc = "error_connections" /\ pc(t) # "error_connections") =>
                /\ task'[t].res.response.status \in ErrorStatuses
                /\ task'[t].res.target = task[t].cid
          /\ (pc(t) = "error_connections" /\ task'[t].pc # pc(t)) =>
                /\ task'[t].pc = "error_send"
                /\ task'[t].conn = t
          /\ (pc(t) = "error_send" /\ task'[t].pc # pc(t)) =>
                sink' = [sink EXCEPT ![t] = Append(@, task[t].res.response)]]_vars

\* C20: the broadcast of RoomLeft that follows a successful Leave has the
\* leaver's own sink among its recipients, together with the sink of every
\* member that remains in the room, and each of them is sent the response.
LeaverNotified ==
    [][\A t \in Conns :
          LET isRoomLeft == task[t].res.response.status = "RoomLeft"
              r == task[t].res.target
          IN /\ (pc(t) = "react_connections" /\ isRoomLeft /\ task'[t].pc # pc(t)) =>
                    /\ task'[t].pc = "react_send"
                    /\ t \in task'[t].sendq
                    /\ \A m \in rooms[r].client_ids :
                          m \in DOMAIN connections => connections[m] \in task'[t].sendq
             /\ (pc(t) = "react_send" /\ isRoomLeft /\ task'[t] # task[t]) =>
                    \E s \in task[t].sendq :
                        /\ sink' = [sink EXCEPT ![s] = Append(@, task[t].res.response)]
                        /\ task'[t].sendq = task[t].sendq \ {s} \/ task'[t].pc = "rx_next"]_vars

\* The sinks of the clients that are members of room r, have a client record
\* pointing at r and have a sink registered.
MemberSinks(r) ==
    {connections[m] : m \in {x \in rooms[r].client_ids :
                                 /\ x \in DOMAIN clients
                                 /\ x \in DOMAIN connections}}

\* C21: when the broadcast of a RoomJoined or RoomLeft takes its snapshot, the
\* sinks it will send to are exactly the sinks of the members of the room at
\* that moment (for a Join the joiner's own sink among them), and every one
\* of them is then passed the response exactly once.
MembershipBroadcast ==
    [][\A t \in Conns :
          LET resp == task[t].res.response
              r == task[t].res.target
              isMembership == resp.status \in {"RoomJoined", "RoomLeft"}
          IN /\ (pc(t) = "react_connections" /\ isMembership /\ task'[t].pc # pc(t)) =>
                    /\ r \in DOMAIN rooms
                    /\ \A m \in rooms[r].client_ids :
                          m \in DOMAIN clients /\ m \in DOMAIN connections
                    /\ IF MemberSinks(r) = {}
                       THEN task'[t].pc = "rx_next"
                       ELSE task'[t].pc = "react_send" /\ task'[t].sendq = MemberSinks(r)
                    /\ (resp.status = "RoomJoined" =>
                          /\ task[t].cid \in rooms[r].client_ids
                          /\ t \in task'[t].sendq)
                    /\ UNCHANGED sink
             /\ (pc(t) = "react_send" /\ isMembership /\ task'[t] # task[t]) =>
                    \E s \in task[t].sendq :
                        /\ sink' = [sink EXCEPT ![s] = Append(@, resp)]
                        /\ IF task[t].sendq = {s}
                           THEN task'[t].pc = "rx_next"
                           ELSE /\ task'[t].pc = "react_send"
                                /\ task'[t].sendq = task[t].sendq \ {s}
                                /\ task'[t].res = task[t].res]_vars

\* The steps of the broadcast of an Action response: the snapshot holds
\* exactly the sinks of the clients that are members of the room at that
\* moment, the author's among them, and each of them is then passed the
\* response once, with the payload of the dispatch.
ActionBroadcastStep ==
    \A t \in Conns :
        LET resp == task[t].res.response
            r == task[t].res.target
        IN /\ (pc(t) = "react_connections" /\ IsAction(resp) /\ task'[t].pc # pc(t)) =>
                  /\ r \in DOMAIN rooms
                  /\ task'[t].pc = "react_send"
                  /\ task'[t].sendq = MemberSinks(r)
                  /\ t \in task'[t].sendq
                  /\ \A c \in DOMAIN connections :
                        connections[c] \in task'[t].sendq =>
                            c \in DOMAIN clients /\ clients[c] = r
                  /\ resp.message = applied[r][resp.ver].payload
                  /\ resp.message.author = task[t].cid
                  /\ UNCHANGED sink
           /\ (pc(t) = "react_send" /\ IsAction(resp) /\ task'[t] # task[t]) =>
                  \E s \in task[t].sendq :
                      /\ sink' = [sink EXCEPT ![s] = Append(@, resp)]
                      /\ IF task[t].sendq = {s}
                         THEN task'[t].pc = "rx_next"
                         ELSE /\ task'[t].pc = "react_send"
                              /\ task'[t].sendq = task[t].sendq \ {s}
                              /\ task'[t].res = task[t].res

\* Whenever an Action response is passed to the sink of a registered client,
\* that client is at that moment a member of the room of the response.
ActionSentToMember ==
    \A t, s \in Conns :
        (/\ pc(t) = "react_send"
         /\ IsAction(task[t].res.response)
         /\ task'[t] # task[t]
         /\ sink'[s] # sink[s]) =>
            LET c == task[s].cid
            IN (c \in DOMAIN clients /\ c \in DOMAIN connections /\ connections[c] = s)
                  => clients[c] = task[t].res.target

\* C22: the Action response of a successful action reaches every
\* member of the room once, with the same payload, and is never passed to
\* the sink of a client that is in no room or in another room.
ActionToMembersOnly == [][ActionBroadcastStep /\ ActionSentToMember]_vars

\* The steps of insert_client_to_room that take and send the snapshot: the
\* snapshot is the state the room's reducer holds at that moment, which is
\* the result of every dispatch applied to the room so far, and it is sent
\* as StateSent on the sink insert_client_to_room found registered under the
\* id of the client that created or joined.
SnapshotStep ==
    \A t \in Conns :
        LET r == task[t].res.target
        IN /\ (pc(t) = "insert_state" /\ task'[t].pc # pc(t)) =>
                  /\ reducerLock[r] = t
                  /\ task'[t].snap = reducers[r]
                  /\ task'[t].snap = Replay(applied[r])
                  /\ UNCHANGED <<reducers, applied>>
           /\ (pc(t) = "insert_connections" /\ task'[t].pc = "insert_reducer") =>
                  task'[t].conn = connections[task[t].cid]
           /\ (pc(t) = "insert_send" /\ task'[t].pc # pc(t)) =>
                  sink' = [sink EXCEPT ![task[t].conn] =
                              Append(@, [status |-> "StateSent", message |-> task[t].snap])]

\* The snapshot taken for a Create is the initial state of the default
\* reducer.
SnapshotOfCreateIsDefault ==
    \A t \in Conns :
        (/\ pc(t) = "insert_state"
         /\ task'[t].pc # pc(t)
         /\ task[t].res.response.status = "RoomCreated") =>
            task'[t].snap = DefaultReducer

\* C23 as stated: the StateSent snapshot is the reducer's state at the moment
\* it is taken under the reducer lock; for a Create that is the default
\* reducer's initial state, for a Join it reflects every dispatch applied to
\* the room before.
SnapshotAsStated == [][SnapshotStep /\ SnapshotOfCreateIsDefault]_vars

\* C23 as amended: the StateSent snapshot is the reducer's state at the
\* moment it is taken under the reducer lock and reflects every dispatch
\* applied to the room before, for a Join and for a Create alike.
SnapshotIsState == [][SnapshotStep]_vars

\* A client joined a room after an action was applied there; the snapshot
\* about to be sent to it holds the effect of that action.
SnapshotWitness ==
    \E t \in Conns :
        /\ pc(t) = "insert_send"
        /\ task[t].res.response.status = "RoomJoined"
        /\ task[t].snap # DefaultReducer
        /\ task[t].snap = reducers[task[t].res.target]

\* The number of entries of a sink's log before position j that satisfy P.
CountBefore(log, j, P(_)) == Cardinality({k \in 1..(j - 1) : P(log[k])})

IsStateSent(resp) == resp.status = "StateSent"

\* C24: at every sink, an Action response authored by the sink's own client
\* is preceded by a StateSent, and by at least as many StateSent as
\* RoomCreated and RoomJoined responses of that client's own Create and Join.
SnapshotBeforeOwnAction ==
    \A t \in Conns : \A j \in DOMAIN sink[t] :
        LET c == task[t].cid
            IsOwnEntry(resp) ==
                \/ resp.status = "RoomJoined" /\ resp.message = c
                \/ resp.status = "RoomCreated" /\ rooms[resp.message].owner_id = c
        IN (IsAction(sink[t][j]) /\ sink[t][j].message.author = c) =>
              /\ CountBefore(sink[t], j, IsStateSent) >= 1
              /\ CountBefore(sink[t], j, IsStateSent) >= CountBefore(sink[t], j, IsOwnEntry)
              /\ CountBefore(sink[t], j, IsOwnEntry) >= 1

\* The steps of a message answered with NotFound, ClientError or ServerError
\* (C25).  The step that decides the error and the steps of
\* react_with_error leave clients, connections, rooms and reducers as they
\* were; react_with_error returns into the loop of handle_rx, where the
\* client is still registered with its own sink and the next message can be
\* read; and a connection task reaches remove_client_connection only from
\* rx.next(), when the stream yields Err.
ErrorPositions == {"error_connections", "error_send"}

ErrorKeepsConnectionStep ==
    \A t \in Conns :
        /\ (pc(t) \notin ErrorPositions /\ task'[t].pc \in ErrorPositions)
              => /\ UNCHANGED shared
                 /\ task'[t].res.response.status \in ErrorStatuses
        /\ (pc(t) \in ErrorPositions /\ task'[t] # task[t])
              => /\ UNCHANGED shared
                 /\ task'[t].pc \in {"error_send", "rx_next"}
                 /\ task'[t].cid = task[t].cid
                 /\ task'[t].pc = "rx_next"
                      => /\ task[t].cid \in DOMAIN clients'
                         /\ task[t].cid \in DOMAIN connections'
                         /\ connections'[task[t].cid] = t
        /\ (pc(t) # "remove_clients" /\ task'[t].pc = "remove_clients")
              => pc(t) = "rx_next"

\* C25: in every step, a message answered with NotFound, ClientError or
\* ServerError leaves its client registered with its sink and its membership
\* unchanged and the task in the loop of handle_rx, which ends only when
\* rx.next() yields Err.
ErrorKeepsConnection == [][ErrorKeepsConnectionStep]_vars

\* The steps of extern_dispatch(client_id, raw) (C26): it writes no registry
\* and no sink.  It
\* returns Err with every reducer unchanged when the client is unknown, is in
\* no room, or raw does not parse; it goes on past the first two checks only
\* for a registered client in a room, and past the parse only for a payload
\* that parses.  Otherwise it applies the action to the current state of the
\* reducer of the client's current room, leaves every other reducer alone,
\* and returns the result of that reducer: the response with the new state,
\* or the reducer's error with the state unchanged.
ExternStepped(t) ==
    \/ task'[t].pc # task[t].pc
    \/ pc(t) = "idle" /\ ops' # ops /\ \A u \in Conns : task'[u].pc = task[u].pc

ExternDispatchStep ==
    \A t \in Exts :
        ExternStepped(t) =>
            /\ UNCHANGED <<clients, connections, rooms, sink>>
            /\ DOMAIN reducers' = DOMAIN reducers
            /\ CASE pc(t) = "idle" ->
                      /\ UNCHANGED reducers
                      /\ IF task'[t].pc = "idle"
                         THEN /\ ~task'[t].res.ok
                              /\ LET c == task'[t].res.target
                                 IN c \in DOMAIN clients => clients[c] = NoRoom
                         ELSE /\ task'[t].cid \in DOMAIN clients
                              /\ clients[task'[t].cid] # NoRoom
                 [] pc(t) = "extern_rooms" ->
                      /\ UNCHANGED reducers
                      /\ task'[t].pc = "idle" => ~task'[t].res.ok
                 [] pc(t) = "extern_reducer" ->
                      /\ UNCHANGED reducers
                      /\ task'[t].pc = "idle" <=> ~ParseAction(task[t].ev.data).ok
                      /\ task'[t].pc = "idle" => ~task'[t].res.ok
                 [] pc(t) = "extern_dispatch" ->
                      LET c == task[t].cid
                          r == clients[c]
                          a == ParseAction(task[t].ev.data)
                          d == Dispatch(reducers[r], c, a)
                      IN /\ task'[t].pc = "idle"
                         /\ \A q \in DOMAIN reducers \ {r} : reducers'[q] = reducers[q]
                         /\ reducers'[r] = d.state
                         /\ IF d.ok
                            THEN task'[t].res = RoomResponse(r, ActionResponse(a, d, c))
                            ELSE /\ task'[t].res = ClientResponse(c, d.data)
                                 /\ UNCHANGED reducers
                 [] OTHER -> FALSE

\* C26: every step of a host call of extern_dispatch keeps to the contract
\* above: Err and nothing changed for an unknown client, a client in no room
\* or an unparsable payload; otherwise the action applied to the reducer of
\* the client's current room only and that reducer's result returned.
ExternDispatchContract == [][ExternDispatchStep]_vars

\* Two host calls were applied to the same room, the second a SendMessage
\* that the reducer accepts only after the IdentifyUser of the first; the
\* host holds the result of the second, which is the state of the reducer.
ExternDispatchWitness ==
    \E t \in Exts : \E r \in DOMAIN applied :
        /\ pc(t) = "idle"
        /\ task[t].res.ok
        /\ task[t].res.target = r
        /\ task[t].res.response.status = "SendMessage"
        /\ task[t].res.response.state = reducers[r]
        /\ Len(applied[r]) = 2
        /\ applied[r][1].ext /\ applied[r][2].ext
        /\ applied[r][1].act.type = "IdentifyUser"
        /\ Len(reducers[r].messages) = 1

\* The steps of a send (C27): a failing sink.send changes nothing but the
\* delivery.  Whether a send
\* of a room broadcast delivers or fails, the registries and reducers are
\* left as they were and the broadcast goes on with the recipients not yet
\* attempted, ending only after the last of them; a send of an error reply or
\* of a snapshot goes on in the same way.  A client record, a room membership
\* or a sink is removed only by the connection task of that client, in
\* handle_leave or in remove_client_connection.
SendStep ==
    \A t \in Conns :
        /\ (pc(t) = "react_send" /\ task'[t] # task[t]) =>
              /\ UNCHANGED shared
              /\ \E s \in task[t].sendq :
                    /\ task'[t].sendq = task[t].sendq \ {s}
                    /\ \/ UNCHANGED sink
                       \/ sink' = [sink EXCEPT ![s] = Append(@, task[t].res.response)]
                    /\ task'[t].pc = IF task[t].sendq = {s} THEN "rx_next" ELSE "react_send"
        /\ (pc(t) = "error_send" /\ task'[t] # task[t]) =>
              /\ UNCHANGED shared
              /\ \/ UNCHANGED sink
                 \/ sink' = [sink EXCEPT ![task[t].conn] = Append(@, task[t].res.response)]
              /\ task'[t].pc = "rx_next"
        /\ (pc(t) = "insert_send" /\ task'[t] # task[t]) =>
              /\ UNCHANGED shared
              /\ task'[t].pc = "react_clients"

RemovedByOwnTask ==
    /\ \A c \in DOMAIN clients \ DOMAIN clients' :
          \E t \in Conns : task[t].cid = c /\ pc(t) \in {"remove_clients", "remove_rooms"}
    /\ \A c \in DOMAIN connections \ DOMAIN connections' :
          \E t \in Conns : task[t].cid = c /\ pc(t) = "remove_connections"
    /\ \A r \in DOMAIN rooms : \A c \in rooms[r].client_ids \ rooms'[r].client_ids :
          \E t \in Conns : task[t].cid = c /\ pc(t) \in {"leave_rooms", "remove_rooms"}

\* C27: in every step, a send that fails leaves clients, rooms, sinks and
\* reducers unchanged, the other recipients are still attempted, and nobody
\* but a client's own task removes its record, membership or sink.
SendFailureIgnored == [][SendStep /\ RemovedByOwnTask]_vars

\* A client joined a room that has another member: the send of RoomJoined to
\* the joiner's own sink failed, the other member was sent it, and the
\* joiner is still registered, still has its sink, is still a member and is
\* back in the loop of handle_rx.
SendFailureWitness ==
    \E t, u \in Conns :
        /\ t # u
        /\ pc(t) = "rx_next"
        /\ task[t].cid \in DOMAIN clients
        /\ task[t].cid \in DOMAIN connections
        /\ clients[task[t].cid] \in DOMAIN rooms
        /\ task[t].cid \in rooms[clients[task[t].cid]].client_ids
        /\ \E i \in DOMAIN sink[u] :
              sink[u][i] = [status |-> "RoomJoined", message |-> task[t].cid]
        /\ task[t].cid # task[u].cid
        /\ connections[task[t].cid] = t
        /\ \A i \in DOMAIN sink[t] : sink[t][i].status # "RoomJoined"

\* Live connections (C28): the ids of the connections that are live at the same time (accepted
\* by handle_stream and not yet through remove_client_connection) are
\* pairwise distinct, so that accepting a connection never replaces the
\* record or the sink of another live client.
Live(t) == pc(t) \notin {"start", "done", "cancelled"}

\* C28: no two live connections have the same client id.
DistinctLiveIds ==
    \A t, u \in Conns : (t # u /\ Live(t) /\ Live(u)) => task[t].cid # task[u].cid

\* The positions at which a task awaits the lock of a registry or of a
\* reducer, and those at which it holds a reducer lock.
AwaitsClients ==
    {"start", "process_event", "create_clients", "join_clients", "insert_clients",
     "action_clients", "handle_action_clients", "leave_clients", "react_clients",
     "remove_clients"}
AwaitsRooms ==
    {"create_rooms", "join_rooms", "insert_rooms", "action_rooms", "leave_rooms",
     "react_rooms", "remove_rooms", "extern_rooms"}
AwaitsConnections ==
    {"add_connections", "insert_connections", "react_connections",
     "error_connections", "remove_connections"}
AwaitsReducer == {"insert_reducer", "handle_action_reducer", "extern_reducer"}
HoldsReducer == {"insert_state", "handle_action_dispatch", "extern_dispatch"}
Holds(t) == {l \in DOMAIN locks : locks[l] = t}

\* C29: the registry locks are acquired in the order clients, rooms,
\* connections.  A task that awaits the clients lock holds no registry lock,
\* one that awaits the rooms lock holds at most the clients lock, and one
\* that awaits the connections lock does not hold it already; so whatever a
\* task holds together was acquired in that order.
LockOrder ==
    \A t \in Tasks :
        /\ pc(t) \in AwaitsClients => Holds(t) = {}
        /\ pc(t) \in AwaitsRooms => Holds(t) \subseteq {"clients"}
        /\ pc(t) \in AwaitsConnections => Holds(t) \subseteq {"clients", "rooms"}
        /\ pc(t) \notin AwaitsClients \cup AwaitsRooms \cup AwaitsConnections
              => pc(t) \in {"rx_next", "done", "cancelled", "idle", "react_send",
                            "error_send", "insert_send"} \cup AwaitsReducer \cup HoldsReducer

\* A broadcast holds clients and rooms and awaits connections, while the
\* other connection task, holding nothing, awaits clients.
LockOrderWitness ==
    \E t, u \in Conns :
        /\ pc(t) = "react_connections"
        /\ Holds(t) = {"clients", "rooms"}
        /\ pc(u) \in AwaitsClients \ {"start"}
        /\ Holds(u) = {}

\* C30: a task that awaits or holds the lock of a room's reducer (for
\* dispatch or for the snapshot of get_state) holds no registry lock.
NoRegistryLockAtReducer ==
    \A t \in Tasks : pc(t) \in AwaitsReducer \cup HoldsReducer => Holds(t) = {}

\* The positions at which a task is inside SinkAdapter::send.
InSend == {"insert_send", "react_send", "error_send"}
HeldReducers(t) == {r \in DOMAIN reducerLock : reducerLock[r] = t}

\* C31: a task that is inside sink.send (of a room broadcast, of an error
\* reply or of a StateSent snapshot) holds no registry lock and no room
\* reducer lock: the recipients and the snapshot were taken before and every
\* guard was dropped.
NoLockInSend ==
    \A t \in Tasks : pc(t) \in InSend => Holds(t) = {} /\ HeldReducers(t) = {}

\* A broadcast to two recipients is inside its sends while the other
\* connection task holds the clients lock and goes on with its own message.
NoLockInSendWitness ==
    \E t, u \in Conns :
        /\ pc(t) = "react_send"
        /\ Cardinality(task[t].sendq) = 2
        /\ locks.clients = u
        /\ pc(u) \notin InSend

\* The task that holds the lock a task is awaiting (NoTask: the task awaits
\* no lock, or the lock is free).  A connection not yet accepted and a host
\* outside a call await nothing.
AwaitedHolder(t) ==
    CASE pc(t) # "start" /\ pc(t) \in AwaitsClients -> locks.clients
      [] pc(t) \in AwaitsRooms -> locks.rooms
      [] pc(t) \in AwaitsConnections -> locks.connections
      [] pc(t) = "insert_reducer" -> reducerLock[task[t].res.target]
      [] pc(t) = "handle_action_reducer" -> reducerLock[task[t].arc]
      [] pc(t) = "extern_reducer" -> reducerLock[task[t].room]
      [] OTHER -> NoTask
Blocked(t) == AwaitedHolder(t) # NoTask
\* The task reached from t after n steps along the awaited holders.
RECURSIVE HolderChain(_, _)
HolderChain(t, n) ==
    IF t = NoTask \/ n = 0 THEN t ELSE HolderChain(AwaitedHolder(t), n - 1)
InWaitCycle(t) ==
    Blocked(t) /\ \E n \in 1..Cardinality(Tasks) : HolderChain(t, n) = t

\* C32: no deadlock.  No task awaits a lock along a chain of holders that
\* leads back to itself, and whenever some task is in the middle of an
\* operation, one of the tasks in the middle of an operation can take its
\* next step (it awaits no lock, or the lock it awaits is free).
DeadlockFree ==
    /\ \A t \in Tasks : ~InWaitCycle(t)
    /\ (\E t \in Tasks : ~AtRest(t)) => \E t \in Tasks : ~AtRest(t) /\ ~Blocked(t)

\* Both connection tasks await the clients lock held by the host, which is
\* inside reducer.dispatch with the clients and rooms locks held.
DeadlockFreeWitness ==
    \E h \in Exts :
        /\ pc(h) = "extern_dispatch"
        /\ \A t \in Conns : pc(t) \in AwaitsClients \ {"start"} /\ AwaitedHolder(t) = h

\* The steps of the loop of handle_rx (C33): a task starts to process a
\* message only by reading it from its stream, it keeps that message until
\* it is back at rx.next(), its step at process_event leaves process_event,
\* and a finished task stays finished.
HandleRxStep ==
    \A t \in Conns :
        /\ (pc(t) # "process_event" /\ task'[t].pc = "process_event")
              => pc(t) = "rx_next" /\ ops' = ops + 1 /\ task'[t].ev # NoEvent
        /\ (pc(t) # "rx_next" /\ task'[t].pc # "rx_next") => task'[t].ev = task[t].ev
        /\ (pc(t) = "process_event" /\ task'[t] # task[t]) => task'[t].pc # "process_event"
        /\ pc(t) = "done" => task'[t].pc = "done"

\* C33: under fair scheduling the loop of handle_rx handles every message of
\* a finite stream once and in stream order (a message read is processed to
\* its end before the next is read), then ends when the stream yields Err,
\* and the client is then removed from the registries.
StreamHandled ==
    /\ [][HandleRxStep]_vars
    /\ \A t \in Conns : (pc(t) = "process_event") ~> (pc(t) = "rx_next")
    /\ \A t \in Conns : (pc(t) = "rx_next") ~> (pc(t) = "done" /\ Absent(task[t].cid))

\* The rooms map and the reducers only grow, and the reducer of a room
\* without members is left as it is.
RoomsKept ==
    /\ DOMAIN rooms \subseteq DOMAIN rooms'
    /\ DOMAIN reducers \subseteq DOMAIN reducers'
    /\ DOMAIN rooms' = DOMAIN reducers'
    /\ \A r \in DOMAIN rooms :
          rooms[r].client_ids = {} => reducers'[r] = reducers[r] /\ applied'[r] = applied[r]

\* The step of handle_join under the rooms lock: a Join of an existing room
\* by a client in no room succeeds, whether the room has members or not.
RejoinStep ==
    \A t \in Conns :
        LET c == task[t].cid
            r == task[t].ev.data
        IN (pc(t) = "join_rooms" /\ task'[t].pc # pc(t) /\ r \in DOMAIN rooms) =>
              /\ task'[t].pc = "insert_clients"
              /\ task'[t].res = join_room(r, c)
              /\ rooms'[r].client_ids = rooms[r].client_ids \cup {c}
              /\ clients'[c] = r

\* No dispatch is applied to a room while a client that joined it when it
\* had no member is on its way to the snapshot: with RoomsKept, the snapshot
\* of a client that joins an empty room is then the state the room had when
\* it became empty.
NoDispatchBeforeSnapshot ==
    \A r \in DOMAIN applied :
        applied'[r] # applied[r] =>
            ~\E t \in Conns :
                /\ pc(t) \in InsertPositions \ {"insert_send"}
                /\ task[t].res.response.status = "RoomJoined"
                /\ task[t].res.target = r
                /\ task[t].vacant

\* C34: rooms are never removed and keep their reducer, whose state does not
\* change while the room has no member; a Join of an emptied room succeeds,
\* and the snapshot sent to the client that joins the emptied room is the
\* state the room had when it became empty.
RoomsPersist ==
    [][RoomsKept /\ RejoinStep /\ NoDispatchBeforeSnapshot]_vars

\* The steps that change a reducer: a dispatch changes the reducer of its own
\* room only, by the action it applies, and a step that adds a room gives it
\* the initial state of the default reducer and leaves the other reducers as
\* they are.
ReducerStep ==
    /\ \A r \in DOMAIN reducers :
          (reducers'[r] # reducers[r] \/ applied'[r] # applied[r]) =>
              /\ Len(applied'[r]) = Len(applied[r]) + 1
              /\ LET a == applied'[r][Len(applied'[r])]
                 IN reducers'[r] = Dispatch(reducers[r], a.author, a.act).state
              /\ \A q \in DOMAIN reducers \ {r} :
                    reducers'[q] = reducers[q] /\ applied'[q] = applied[q]
              /\ DOMAIN reducers' = DOMAIN reducers
    /\ \A r \in DOMAIN reducers' \ DOMAIN reducers :
          /\ reducers'[r] = DefaultReducer
          /\ applied'[r] = <<>>
          /\ \A q \in DOMAIN reducers : reducers'[q] = reducers[q]

\* C35: each room owns an independent reducer.  A dispatch in a room never
\* changes the state of another room's reducer, and every new room starts
\* from the initial state of the default reducer, whatever was applied in
\* other rooms before.
ReducerIndependence == [][ReducerStep]_vars

\* Two rooms: an action was applied in room 0, and room 1 holds the initial
\* state of the default reducer.
ReducerIndependenceWitness ==
    /\ {0, 1} \subseteq DOMAIN rooms
    /\ Len(applied[0]) >= 1
    /\ reducers[0] # DefaultReducer
    /\ applied[1] = <<>>
    /\ reducers[1] = DefaultReducer

\* The states a room's reducer held after its first k dispatches, for k from
\* lo to hi.
StatesBetween(r, lo, hi) ==
    {Replay(SubSeq(applied[r], 1, k)) : k \in {n \in lo..hi : n <= Len(applied[r])}}

\* C36: at a sink the room states carried by StateSent and Action
\* responses never go backwards.  A StateSent that follows an Action
\* response holds a state of the room not older than the one the Action
\* response reflects, and an Action response that follows a StateSent
\* reflects a state not older than the snapshot.  Stated for the runs with
\* room 0 alone, where every response is about that room.
SinkVersionsMonotone ==
    DOMAIN rooms = {0} =>
        \A t \in Conns : \A i, j \in DOMAIN sink[t] :
            /\ (i < j /\ IsAction(sink[t][i]) /\ IsStateSent(sink[t][j])) =>
                   sink[t][j].message \in StatesBetween(0, sink[t][i].ver, Len(applied[0]))
            /\ (i < j /\ IsStateSent(sink[t][i]) /\ IsAction(sink[t][j])) =>
                   sink[t][i].message \in StatesBetween(0, 0, sink[t][j].ver)

\* C37: at every quiescent point every id in a room's client_ids is a key of
\* clients; no room lists a client that was removed.
RoomMembersRegistered ==
    Quiescent =>
        \A r \in DOMAIN rooms : \A c \in rooms[r].client_ids : c \in DOMAIN clients

\* The effects of a step of connection task t, whatever the client_token of
\* the message it handles: the task keeps the id it was registered under,
\* the step changes the record, the sink and the memberships of no other
\* client, the action it applies is dispatched under the task's id, and the
\* room it creates is owned by that id.
TokenIgnoredEffects(t) ==
    LET c == task'[t].cid
    IN /\ pc(t) # "start" => c = task[t].cid
       /\ \A d \in ClientIds \ {c} :
             /\ d \in DOMAIN clients <=> d \in DOMAIN clients'
             /\ d \in DOMAIN clients => clients'[d] = clients[d]
             /\ d \in DOMAIN connections <=> d \in DOMAIN connections'
             /\ d \in DOMAIN connections => connections'[d] = connections[d]
             /\ \A r \in DOMAIN rooms :
                   d \in rooms[r].client_ids <=> d \in rooms'[r].client_ids
       /\ \A r \in DOMAIN applied :
             applied'[r] # applied[r] =>
                 /\ applied'[r][Len(applied'[r])].author = c
                 /\ clients[c] = r
       /\ \A r \in DOMAIN rooms' \ DOMAIN rooms :
             rooms'[r].owner_id = c /\ rooms'[r].client_ids = {c}

\* The routing of the response a step of connection task t produces: a room
\* response goes to the room of the task's client, an error response to the
\* task's client.
TokenIgnoredRouting(t) ==
    LET c == task'[t].cid
        res == task'[t].res
    IN (task[t].res = NoResult /\ res # NoResult) =>
           IF res.ok THEN res.target \in {clients[c], clients'[c]} \ {NoRoom}
                     ELSE res.target = c

\* C38: the client_token of an inbound message has no effect.  The client
\* id used for the state-machine checks, passed to reducer.dispatch and used
\* for routing is the id assigned to the connection the message arrived on,
\* whatever the token says.
TokenIgnored ==
    [][\A t \in Conns :
          task'[t] # task[t] => TokenIgnoredEffects(t) /\ TokenIgnoredRouting(t)]_vars

\* The response announces an operation of t's own client: the RoomCreated of
\* a room it created, or the RoomJoined that names it.
AnnouncesOwn(t, resp) ==
    \/ resp.status = "RoomJoined" /\ resp.message = task[t].cid
    \/ resp.status = "RoomCreated" /\ rooms[resp.message].owner_id = task[t].cid

\* C39: for a successful Create or Join the sender's sink receives the
\* StateSent of the operation before its RoomCreated or the RoomJoined that
\* announces the sender.  At every sink the k-th such response is preceded by
\* exactly k StateSent responses, so that the StateSent of each operation
\* lies between the previous announcement and its own.
StateSentFirst ==
    \A t \in Conns : \A j \in DOMAIN sink[t] :
        LET Own(resp) == AnnouncesOwn(t, resp)
        IN AnnouncesOwn(t, sink[t][j]) =>
              CountBefore(sink[t], j, IsStateSent) = CountBefore(sink[t], j, Own) + 1

====
